---- MODULE Spec2Model ----
(***************************************************************************)
(* Model of web/src/views/TableModal.vue: the conversation-history dialog  *)
(* (paginated list, row selection, bulk deletion) and the chat composer    *)
(* (free text plus one optional mode chip).                                *)
(*                                                                         *)
(* A record (row) is represented by its chat_id, the only field the        *)
(* handlers read (rowKey).  A text is a sequence of one-character strings. *)
(* An optional field of a response body is a sequence of length 0 (the     *)
(* field is absent) or 1 (the field is present with that value).           *)
(*                                                                         *)
(* op, arg, shiftKey, lastSelect, issued, emitted, escaped and submitted   *)
(* are observation variables: the handler that ran last, its argument,     *)
(* the collaborator calls it issued, the events it emitted and whether an  *)
(* exception left it.  No handler reads them.                              *)
(***************************************************************************)
EXTENDS Integers, Sequences, FiniteSets

VARIABLES
    propsShow,        \* props.show, owned by the host
    localShow,        \* localShow.value
    tableData,        \* tableData.value: the chat_id of each row
    loading,          \* loading.value
    checkedRowKeys,   \* checkedRowKeys.value
    page,             \* pagination.value.page
    pageSize,         \* pagination.value.pageSize
    total,            \* pagination.value.total
    pageCount,        \* pagination.value.pageCount
    fetches,          \* the fetchData invocations suspended at await query (line 67), oldest first
    parsing,          \* those suspended at await res.json() (line 72), oldest first
    deletes,          \* how many deleteSelectedData invocations are suspended at their await
    inputValue,       \* inputValue.value (composer)
    selectedMode,     \* selectedMode.value?.value, or "null" (composer)
    op,               \* the handler or continuation that ran last
    arg,              \* its integer argument (0: none); of a continuation of
                      \* fetchData: the page size its query asked for
    shiftKey,         \* e.shiftKey of the event handed to handleEnter last
    lastSelect,       \* the argument of the most recent handleCheck
    issued,           \* collaborator calls issued by the last step
    emitted,          \* events emitted by the dialog in the last step
    escaped,          \* the last step ended with an exception leaving its handler
    submitted         \* submit events emitted by the composer in the last step

tableVars == <<propsShow, localShow, tableData, loading, checkedRowKeys, page,
               pageSize, total, pageCount, fetches, parsing, deletes,
               lastSelect, issued, emitted, escaped>>
composerVars == <<inputValue, selectedMode, shiftKey, submitted>>
vars == <<tableVars, composerVars, op, arg>>

----------------------------------------------------------------------------
(* Bounds of the model *)

MaxId == 2            \* chat_ids are 1..MaxId
MaxPage == 3          \* pages the pager can ask for
MaxPageSize == 1      \* page sizes the pager can ask for (besides the default)
MaxTotal == 1         \* largest total_count a response carries
MaxPageCount == 2     \* largest total_pages a response carries
MaxInflight == 2      \* fetchData invocations suspended at once
MaxDeletes == 1       \* deleteSelectedData invocations suspended at once
MaxLen == 3           \* characters in the composer's text

(* Program constants *)

DefaultPage == 1
DefaultPageSize == 8

----------------------------------------------------------------------------
(* Helpers *)

SeqsUpTo(S, n) == UNION {[1..k -> S] : k \in 0..n}

RemoveAt(s, i) == SubSeq(s, 1, i - 1) \o SubSeq(s, i + 1, Len(s))

Opt(S) == {<<>>} \cup {<<v>> : v \in S}

\* Lists of distinct chat_ids (in increasing order: the order of the rows
\* plays no part in any handler).
IdLists == {s \in SeqsUpTo(1..MaxId, MaxId) :
              \A i \in 1..Len(s) : \A j \in 1..Len(s) : i < j => s[i] < s[j]}

Ids(s) == {s[i] : i \in 1..Len(s)}

PageSizes == 1..MaxPageSize

----------------------------------------------------------------------------
(* The collaborator (GlobalAPI) as the dialog sees it *)

QueryCall(p, ps) ==
    [api |-> "query_user_qa_record", page |-> p, pageSize |-> ps, keys |-> <<>>]

DeleteCall(keys) ==
    [api |-> "delete_user_record", page |-> 0, pageSize |-> 0, keys |-> keys]

\* A parsed body without the data envelope (null, or no data field).
NoEnvelope ==
    [envelope |-> FALSE, records |-> <<>>, total_count |-> <<>>, total_pages |-> <<>>]

\* The parsed bodies res.json() may resolve with.  Every field of data may be
\* absent, and the code does not compare the number of records with the page
\* size it asked for.
Bodies ==
    {NoEnvelope} \cup
    {[envelope |-> TRUE, records |-> r, total_count |-> c, total_pages |-> n] :
        r \in Opt(IdLists),
        c \in Opt(0..MaxTotal),
        n \in Opt(0..MaxPageCount)}

----------------------------------------------------------------------------
(* fetchData *)

\* records || []  (an array, even an empty one, is truthy)
OrEmpty(o) == IF o = <<>> THEN <<>> ELSE o[1]

\* total_count || 0  (absent and 0 are both falsy)
OrZero(o) == IF o = <<>> THEN 0 ELSE IF o[1] = 0 THEN 0 ELSE o[1]

\* The three error branches: tableData.value = [], total = 0, pageCount = 0.
resetResult == [tableData |-> <<>>, total |-> 0, pageCount |-> 0]

\* successResult taking the total from the number of records received.
successResultCountsRows(body) ==
    [tableData |-> OrEmpty(body.records),
     total     |-> Len(OrEmpty(body.records)),
     pageCount |-> OrZero(body.total_pages)]

successResult(body) ==
    [tableData |-> OrEmpty(body.records),
     total     |-> OrZero(body.total_count),
     pageCount |-> OrZero(body.total_pages)]

\* if (data && data.data) { ... } else { ... }
bodyResult(body) == IF body.envelope THEN successResult(body) ELSE resetResult

assign(r) ==
    /\ tableData' = r.tableData
    /\ total' = r.total
    /\ pageCount' = r.pageCount

Step(name, a) == op' = name /\ arg' = a

\* fetchData() up to its await of the query.  It runs at the end of its
\* caller, so it reads pagination.value.page and .pageSize as the caller left
\* them: callers state page' and pageSize' before they use it.  The suspended
\* invocation is remembered by the page size it asked for.
fetchData ==
    /\ Len(fetches) + Len(parsing) < MaxInflight
    /\ loading' = TRUE
    /\ fetches' = Append(fetches, pageSize')
    /\ UNCHANGED parsing
    /\ issued' = <<QueryCall(page', pageSize')>>

\* fetchResult with the res.ok = false branch leaving the table as it is.
fetchResultNotOkKeepsTable(outcome, body) ==
    IF outcome = "bodyParsed" THEN bodyResult(body)
    ELSE IF outcome = "queryNotOk"
    THEN [tableData |-> tableData, total |-> total, pageCount |-> pageCount]
    ELSE resetResult

\* What fetchData assigns before it ends, by the way its awaits settled:
\*   queryNotOk     the query resolves with res.ok false        (else branch)
\*   queryRejected  the query rejects, or res is not an object  (catch)
\*   bodyRejected   res.ok, and res.json() rejects              (catch)
\*   bodyParsed     res.ok, and res.json() resolves with body
fetchResult(outcome, body) ==
    IF outcome = "bodyParsed" THEN bodyResult(body) ELSE resetResult

\* fetchData without its finally block: the flag stays as it is.
finallyMissing == loading

\* finally { loading.value = false }
finallyLoading == FALSE

\* The query of the suspended fetchData number i settles (line 67).  With
\* res.ok the invocation calls res.json() and is suspended again at line 72,
\* having assigned nothing; otherwise it runs to its end (else branch or
\* catch, then finally).
QuerySettled(i, outcome) ==
    /\ i \in 1..Len(fetches)
    /\ outcome \in {"queryOk", "queryNotOk", "queryRejected"}
    /\ fetches' = RemoveAt(fetches, i)
    /\ IF outcome = "queryOk"
       THEN /\ parsing' = Append(parsing, fetches[i])
            /\ UNCHANGED <<tableData, total, pageCount, loading>>
       ELSE /\ assign(fetchResult(outcome, NoEnvelope))
            /\ loading' = finallyLoading
            /\ UNCHANGED parsing
    /\ issued' = <<>> /\ emitted' = <<>> /\ escaped' = FALSE
    /\ Step(outcome, fetches[i])
    /\ UNCHANGED <<propsShow, localShow, checkedRowKeys, page, pageSize, deletes,
                   lastSelect>>
    /\ UNCHANGED composerVars

\* BodySettled guarded by a request sequence: a result is dropped while
\* another fetch is in flight.
BodySettledLatestOnly(j, outcome, body) ==
    /\ j \in 1..Len(parsing)
    /\ outcome \in {"bodyRejected", "bodyParsed"}
    /\ IF Len(fetches) + Len(parsing) = 1
       THEN assign(fetchResult(outcome, body))
       ELSE UNCHANGED <<tableData, total, pageCount>>
    /\ loading' = finallyLoading
    /\ parsing' = RemoveAt(parsing, j)
    /\ issued' = <<>> /\ emitted' = <<>> /\ escaped' = FALSE
    /\ Step(IF outcome = "bodyParsed"
            THEN (IF body.envelope THEN "bodyOk" ELSE "bodyNoEnvelope")
            ELSE outcome, parsing[j])
    /\ UNCHANGED <<propsShow, localShow, checkedRowKeys, page, pageSize, fetches,
                   deletes, lastSelect>>
    /\ UNCHANGED composerVars

\* res.json() of the suspended fetchData number j settles (line 72) and the
\* invocation runs to its end.
BodySettled(j, outcome, body) ==
    /\ j \in 1..Len(parsing)
    /\ outcome \in {"bodyRejected", "bodyParsed"}
    /\ assign(fetchResult(outcome, body))
    /\ loading' = finallyLoading
    /\ parsing' = RemoveAt(parsing, j)
    /\ issued' = <<>> /\ emitted' = <<>> /\ escaped' = FALSE
    /\ Step(IF outcome = "bodyParsed"
            THEN (IF body.envelope THEN "bodyOk" ELSE "bodyNoEnvelope")
            ELSE outcome, parsing[j])
    /\ UNCHANGED <<propsShow, localShow, checkedRowKeys, page, pageSize, fetches,
                   deletes, lastSelect>>
    /\ UNCHANGED composerVars

----------------------------------------------------------------------------
(* The dialog's handlers *)

\* close also dropping the rows and the selection.
closeClearsTable ==
    /\ localShow' = FALSE
    /\ emitted' = <<[event |-> "update:show", value |-> FALSE]>>
    /\ page' = 1
    /\ tableData' = <<>>
    /\ checkedRowKeys' = <<>>
    /\ issued' = <<>> /\ escaped' = FALSE
    /\ Step("close", 0)
    /\ UNCHANGED <<propsShow, loading, pageSize, total, pageCount, fetches, parsing,
                   deletes, lastSelect>>
    /\ UNCHANGED composerVars

close ==
    /\ localShow' = FALSE
    /\ emitted' = <<[event |-> "update:show", value |-> FALSE]>>
    /\ page' = 1
    /\ issued' = <<>> /\ escaped' = FALSE
    /\ Step("close", 0)
    /\ UNCHANGED <<propsShow, tableData, loading, checkedRowKeys, pageSize, total,
                   pageCount, fetches, parsing, deletes, lastSelect>>
    /\ UNCHANGED composerVars

\* handleCheck adding rowKeys to the selection instead of replacing it.
handleCheckMerges(rowKeys) ==
    /\ checkedRowKeys' = (CHOOSE l \in IdLists :
                             Ids(l) = Ids(checkedRowKeys) \cup Ids(rowKeys))
    /\ lastSelect' = rowKeys
    /\ issued' = <<>> /\ emitted' = <<>> /\ escaped' = FALSE
    /\ Step("handleCheck", 0)
    /\ UNCHANGED <<propsShow, localShow, tableData, loading, page, pageSize, total,
                   pageCount, fetches, parsing, deletes>>
    /\ UNCHANGED composerVars

handleCheck(rowKeys) ==
    /\ checkedRowKeys' = rowKeys
    /\ lastSelect' = rowKeys
    /\ issued' = <<>> /\ emitted' = <<>> /\ escaped' = FALSE
    /\ Step("handleCheck", 0)
    /\ UNCHANGED <<propsShow, localShow, tableData, loading, page, pageSize, total,
                   pageCount, fetches, parsing, deletes>>
    /\ UNCHANGED composerVars

\* deleteSelectedData without its check of an empty selection.
deleteSelectedDataUnguarded ==
    /\ deletes < MaxDeletes
    /\ issued' = <<DeleteCall(checkedRowKeys)>>
    /\ deletes' = deletes + 1
    /\ emitted' = <<>> /\ escaped' = FALSE
    /\ Step("deleteSelectedData", 0)
    /\ UNCHANGED <<propsShow, localShow, tableData, loading, checkedRowKeys, page,
                   pageSize, total, pageCount, fetches, parsing, lastSelect>>
    /\ UNCHANGED composerVars

\* deleteSelectedData() up to its await.
deleteSelectedData ==
    /\ IF Len(checkedRowKeys) = 0
       THEN /\ issued' = <<>>
            /\ UNCHANGED deletes
       ELSE /\ deletes < MaxDeletes
            /\ issued' = <<DeleteCall(checkedRowKeys)>>
            /\ deletes' = deletes + 1
    /\ emitted' = <<>> /\ escaped' = FALSE
    /\ Step("deleteSelectedData", 0)
    /\ UNCHANGED <<propsShow, localShow, tableData, loading, checkedRowKeys, page,
                   pageSize, total, pageCount, fetches, parsing, lastSelect>>
    /\ UNCHANGED composerVars

\* DeleteSettled refreshing whatever res.ok is.
DeleteSettledAlwaysRefreshes(outcome) ==
    /\ deletes > 0
    /\ outcome \in {"deleteOk", "deleteNotOk", "deleteRejected"}
    /\ deletes' = deletes - 1
    /\ UNCHANGED <<page, pageSize>>
    /\ IF outcome /= "deleteRejected"
       THEN fetchData
       ELSE /\ issued' = <<>>
            /\ UNCHANGED <<loading, fetches, parsing>>
    /\ escaped' = (outcome = "deleteRejected")
    /\ emitted' = <<>>
    /\ Step(outcome, 0)
    /\ UNCHANGED <<propsShow, localShow, tableData, checkedRowKeys, total,
                   pageCount, lastSelect>>
    /\ UNCHANGED composerVars

\* await delete_user_record(...) settles.  The await is outside any try: a
\* rejection (or a res that is not an object) leaves deleteSelectedData.
DeleteSettled(outcome) ==
    /\ deletes > 0
    /\ outcome \in {"deleteOk", "deleteNotOk", "deleteRejected"}
    /\ deletes' = deletes - 1
    /\ UNCHANGED <<page, pageSize>>
    /\ IF outcome = "deleteOk"
       THEN fetchData
       ELSE /\ issued' = <<>>
            /\ UNCHANGED <<loading, fetches, parsing>>
    /\ escaped' = (outcome = "deleteRejected")
    /\ emitted' = <<>>
    /\ Step(outcome, 0)
    /\ UNCHANGED <<propsShow, localShow, tableData, checkedRowKeys, total,
                   pageCount, lastSelect>>
    /\ UNCHANGED composerVars

handlePageChange(p) ==
    /\ page' = p
    /\ UNCHANGED pageSize
    /\ fetchData
    /\ emitted' = <<>> /\ escaped' = FALSE
    /\ Step("handlePageChange", p)
    /\ UNCHANGED <<propsShow, localShow, tableData, checkedRowKeys, total,
                   pageCount, deletes, lastSelect>>
    /\ UNCHANGED composerVars

\* handlePageSizeChange without the reset of the page.
handlePageSizeChangeKeepsPage(newPageSize) ==
    /\ pageSize' = newPageSize
    /\ UNCHANGED page
    /\ fetchData
    /\ emitted' = <<>> /\ escaped' = FALSE
    /\ Step("handlePageSizeChange", newPageSize)
    /\ UNCHANGED <<propsShow, localShow, tableData, checkedRowKeys, total,
                   pageCount, deletes, lastSelect>>
    /\ UNCHANGED composerVars

handlePageSizeChange(newPageSize) ==
    /\ pageSize' = newPageSize
    /\ page' = 1
    /\ fetchData
    /\ emitted' = <<>> /\ escaped' = FALSE
    /\ Step("handlePageSizeChange", newPageSize)
    /\ UNCHANGED <<propsShow, localShow, tableData, checkedRowKeys, total,
                   pageCount, deletes, lastSelect>>
    /\ UNCHANGED composerVars

\* watchShow without the test of newVal: it fetches on every change of the
\* local visibility.
watchShowFetchesOnAnyChange(newVal) ==
    /\ newVal /= propsShow
    /\ propsShow' = newVal
    /\ UNCHANGED <<page, pageSize>>
    /\ IF newVal /= localShow
       THEN /\ localShow' = newVal
            /\ fetchData
       ELSE /\ issued' = <<>>
            /\ UNCHANGED <<localShow, loading, fetches, parsing>>
    /\ emitted' = <<>> /\ escaped' = FALSE
    /\ Step("watchShow", 0)
    /\ UNCHANGED <<tableData, checkedRowKeys, total, pageCount, deletes, lastSelect>>
    /\ UNCHANGED composerVars

\* The host changes props.show to newVal and the watcher runs.
watchShow(newVal) ==
    /\ newVal /= propsShow
    /\ propsShow' = newVal
    /\ UNCHANGED <<page, pageSize>>
    /\ IF newVal /= localShow
       THEN /\ localShow' = newVal
            /\ IF newVal
               THEN fetchData
               ELSE issued' = <<>> /\ UNCHANGED <<loading, fetches, parsing>>
       ELSE /\ issued' = <<>>
            /\ UNCHANGED <<localShow, loading, fetches, parsing>>
    /\ emitted' = <<>> /\ escaped' = FALSE
    /\ Step("watchShow", 0)
    /\ UNCHANGED <<tableData, checkedRowKeys, total, pageCount, deletes, lastSelect>>
    /\ UNCHANGED composerVars

\* n-modal's v-model:show writes false into localShow (the card's close button).
modalDismiss ==
    /\ localShow
    /\ localShow' = FALSE
    /\ issued' = <<>> /\ emitted' = <<>> /\ escaped' = FALSE
    /\ Step("modalDismiss", 0)
    /\ UNCHANGED <<propsShow, tableData, loading, checkedRowKeys, page, pageSize,
                   total, pageCount, fetches, parsing, deletes, lastSelect>>
    /\ UNCHANGED composerVars

----------------------------------------------------------------------------
(* The composer *)

Chars == {"a", " ", "\n"}

Whitespace == {" ", "\n"}

Texts == SeqsUpTo(Chars, MaxLen)

\* chips[k].value
Chips == {"COMMON_QA", "DATABASE_QA", "FILEDATA_QA", "REPORT_QA"}

RECURSIVE TrimStart(_)
TrimStart(s) ==
    IF s = <<>> THEN <<>>
    ELSE IF Head(s) \in Whitespace THEN TrimStart(Tail(s)) ELSE s

RECURSIVE TrimEnd(_)
TrimEnd(s) ==
    IF s = <<>> THEN <<>>
    ELSE IF s[Len(s)] \in Whitespace THEN TrimEnd(SubSeq(s, 1, Len(s) - 1)) ELSE s

\* String.prototype.trim
Trim(s) == TrimEnd(TrimStart(s))

\* selectedMode.value?.value || 'COMMON_QA'
modeOrDefault == IF selectedMode = "null" THEN "COMMON_QA" ELSE selectedMode

\* handleEnter testing the text without trimming it.
handleEnterNoTrim(shift) ==
    IF shift
    THEN [inputValue |-> inputValue, submitted |-> <<>>]
    ELSE IF inputValue = <<>>
    THEN [inputValue |-> inputValue, submitted |-> <<>>]
    ELSE [inputValue |-> <<>>,
          submitted  |-> <<[text |-> inputValue, mode |-> modeOrDefault]>>]

\* handleEnter(e), e.shiftKey = shift (FALSE also stands for a call without an
\* event): the text it leaves and the events it emits.
handleEnter(shift) ==
    IF shift
    THEN [inputValue |-> inputValue, submitted |-> <<>>]
    ELSE IF Trim(inputValue) = <<>>
    THEN [inputValue |-> inputValue, submitted |-> <<>>]
    ELSE [inputValue |-> <<>>,
          submitted  |-> <<[text |-> inputValue, mode |-> modeOrDefault]>>]

\* The .prevent modifier of @keydown.enter.prevent: event.preventDefault() is
\* called on every Enter keydown before the handler runs.
prevent == TRUE

\* An Enter keydown in the textarea, with or without shift.  The key's default
\* action (the textarea inserts a line break, then v-model:value writes the
\* text back) takes place after the handler unless the event was prevented.
keydownEnter(shift) ==
    LET r == handleEnter(shift) IN
    /\ inputValue' = IF prevent THEN r.inputValue ELSE Append(r.inputValue, "\n")
    /\ inputValue' \in Texts
    /\ submitted' = r.submitted
    /\ shiftKey' = shift
    /\ Step("keydownEnter", 0)
    /\ UNCHANGED selectedMode
    /\ UNCHANGED tableVars

\* A click on the send button: @click="handleEnter" hands it the MouseEvent.
clickSend(shift) ==
    LET r == handleEnter(shift) IN
    /\ inputValue' = r.inputValue
    /\ submitted' = r.submitted
    /\ shiftKey' = shift
    /\ Step("clickSend", 0)
    /\ UNCHANGED selectedMode
    /\ UNCHANGED tableVars

\* v-model:value writes what the user typed.
setText(value) ==
    /\ inputValue' = value
    /\ submitted' = <<>>
    /\ shiftKey' = FALSE
    /\ Step("setText", 0)
    /\ UNCHANGED selectedMode
    /\ UNCHANGED tableVars

\* handleChipClick keeping a mode that is already selected.
handleChipClickKeepsFirst(chip) ==
    /\ selectedMode' = (IF selectedMode = "null" THEN chip ELSE selectedMode)
    /\ submitted' = <<>>
    /\ shiftKey' = FALSE
    /\ Step("handleChipClick", 0)
    /\ UNCHANGED inputValue
    /\ UNCHANGED tableVars

handleChipClick(chip) ==
    /\ selectedMode' = chip
    /\ submitted' = <<>>
    /\ shiftKey' = FALSE
    /\ Step("handleChipClick", 0)
    /\ UNCHANGED inputValue
    /\ UNCHANGED tableVars

clearMode ==
    /\ selectedMode' = "null"
    /\ submitted' = <<>>
    /\ shiftKey' = FALSE
    /\ Step("clearMode", 0)
    /\ UNCHANGED inputValue
    /\ UNCHANGED tableVars

----------------------------------------------------------------------------
(* Specifications *)

Init ==
    /\ propsShow \in BOOLEAN
    /\ localShow = propsShow
    /\ tableData = <<>>
    /\ loading = FALSE
    /\ checkedRowKeys = <<>>
    /\ page = DefaultPage
    /\ pageSize = DefaultPageSize
    /\ total = 0
    /\ pageCount = 0
    /\ fetches = <<>>
    /\ parsing = <<>>
    /\ deletes = 0
    /\ inputValue = <<>>
    /\ selectedMode = "null"
    /\ op = "setup"
    /\ arg = 0
    /\ shiftKey = FALSE
    /\ lastSelect = <<>>
    /\ issued = <<>>
    /\ emitted = <<>>
    /\ escaped = FALSE
    /\ submitted = <<>>

\* The query of a suspended fetchData settles.
QuerySettles ==
    \E i \in 1..MaxInflight :
        \E o \in {"queryOk", "queryNotOk", "queryRejected"} : QuerySettled(i, o)

\* res.json() of a suspended fetchData settles; B: the bodies it may resolve
\* with.
BodySettlesWith(B) ==
    \E j \in 1..MaxInflight :
        \/ BodySettled(j, "bodyRejected", NoEnvelope)
        \/ \E b \in B : BodySettled(j, "bodyParsed", b)

BodySettles == BodySettlesWith(Bodies)

\* A suspended deleteSelectedData is resumed.
DeleteSettles ==
    \E o \in {"deleteOk", "deleteNotOk", "deleteRejected"} : DeleteSettled(o)

Next ==
    \/ QuerySettles
    \/ BodySettles
    \/ DeleteSettles
    \/ close
    \/ \E k \in IdLists : handleCheck(k)
    \/ deleteSelectedData
    \/ \E p \in 1..MaxPage : handlePageChange(p)
    \/ \E n \in PageSizes : handlePageSizeChange(n)
    \/ \E v \in BOOLEAN : watchShow(v)
    \/ modalDismiss

Spec == Init /\ [][Next]_vars

\* The behaviours in which every collaborator call settles, and so does every
\* res.json().  The loading flag reads neither the counts of a body nor the
\* selection, so these behaviours take the bodies without counts and two
\* selections only.
FairBodies ==
    {b \in Bodies : b.total_count = <<>> /\ b.total_pages = <<>>}

FairSelections == {k \in IdLists : Ids(k) \subseteq {1}}

NextFair ==
    \/ QuerySettles
    \/ BodySettlesWith(FairBodies)
    \/ DeleteSettles
    \/ close
    \/ \E k \in FairSelections : handleCheck(k)
    \/ deleteSelectedData
    \/ \E p \in 1..MaxPage : handlePageChange(p)
    \/ \E n \in PageSizes : handlePageSizeChange(n)
    \/ \E v \in BOOLEAN : watchShow(v)
    \/ modalDismiss

SpecFair ==
    /\ Init
    /\ [][NextFair]_vars
    /\ WF_vars(QuerySettles)
    /\ WF_vars(BodySettlesWith(FairBodies))
    /\ WF_vars(DeleteSettles)

NextComposer ==
    \/ \E v \in Texts : setText(v)
    \/ \E c \in Chips : handleChipClick(c)
    \/ clearMode
    \/ \E s \in BOOLEAN : keydownEnter(s)
    \/ \E s \in BOOLEAN : clickSend(s)

SpecComposer == Init /\ [][NextComposer]_vars

----------------------------------------------------------------------------
(* Properties of the dialog *)

FailureOps == {"queryNotOk", "queryRejected", "bodyRejected", "bodyNoEnvelope"}

\* The continuations in which a fetchData invocation ends.
SettleOps == FailureOps \cup {"bodyOk"}

\* The fetchData invocations in flight: suspended at either await.
InFlight == Len(fetches) + Len(parsing)

QueryIssued == \E k \in 1..Len(issued) : issued[k].api = "query_user_qa_record"

\* C1: when a fetch ends in a failure (res.ok false, a rejected or throwing
\* call, a body that does not parse, a body without the data envelope), the
\* state it leaves has no rows, total 0 and pageCount 0, and no exception has
\* left fetchData.
C1_FailureResetsTable ==
    op \in FailureOps =>
        /\ tableData = <<>>
        /\ total = 0
        /\ pageCount = 0
        /\ ~escaped

C1_Witness == op = "queryNotOk" /\ tableData = <<>> /\ checkedRowKeys /= <<>>

\* C2: a step that issues a query leaves loading true; a step that ends a
\* fetch (on any of its exits) leaves loading false; loading is false whenever
\* no fetch is in flight; and, every call settling, loading = true leads to
\* loading = false.
C2_LoadingReleased ==
    /\ [](QueryIssued => loading)
    /\ [](op \in SettleOps => ~loading)
    /\ [](InFlight = 0 => ~loading)
    /\ (loading ~> ~loading)

C2_Witness == op = "bodyRejected" /\ ~loading /\ InFlight = 0

\* C3: handlePageSizeChange(n) leaves pageSize = n and page = 1, and the one
\* query it issues carries (page 1, pageSize n).
C3_PageSizeResetsPage ==
    op = "handlePageSizeChange" =>
        /\ pageSize = arg
        /\ page = 1
        /\ issued = <<QueryCall(1, arg)>>

C3_Witness ==
    /\ op = "handlePageSizeChange"
    /\ arg = 1
    /\ issued = <<QueryCall(1, 1)>>
    /\ fetches = <<DefaultPageSize, 1>>

\* C4: deleteSelectedData with an empty selection issues no call and changes
\* neither the table, the pagination, the loading flag nor the selection.
C4_EmptyDeleteIsNoOp ==
    [][(op' = "deleteSelectedData" /\ checkedRowKeys = <<>>) =>
          /\ issued' = <<>>
          /\ UNCHANGED <<tableData, page, pageSize, total, pageCount, loading,
                         checkedRowKeys, fetches, parsing, deletes>>]_vars

C4_Witness ==
    /\ op = "deleteSelectedData"
    /\ checkedRowKeys = <<>>
    /\ issued = <<>>
    /\ tableData /= <<>>

\* C5: deleteSelectedData with a non-empty selection issues exactly one
\* bulk delete; when it resolves ok exactly one fetch is issued, with the
\* current page and pageSize, the page not being reset; when it resolves not
\* ok no fetch is issued and the table, the counts and the page stay.
C5_DeleteThenRefresh ==
    [][/\ (op' = "deleteSelectedData" /\ checkedRowKeys /= <<>>) =>
             /\ issued' = <<DeleteCall(checkedRowKeys)>>
             /\ deletes' = deletes + 1
             /\ UNCHANGED <<fetches, parsing>>
       /\ op' = "deleteOk" =>
             /\ issued' = <<QueryCall(page, pageSize)>>
             /\ fetches' = Append(fetches, pageSize)
             /\ UNCHANGED <<page, pageSize, tableData, total, pageCount>>
       /\ op' = "deleteNotOk" =>
             /\ issued' = <<>>
             /\ UNCHANGED <<fetches, parsing, loading, page, pageSize, tableData, total,
                            pageCount>>]_vars

C5_Witness ==
    /\ op = "deleteOk"
    /\ page > 1
    /\ issued = <<QueryCall(page, pageSize)>>

\* C6: the selection is always the list given to the most recent handleCheck
\* (never merged with an earlier one), and the list handed to the bulk delete
\* is that list.
C6_SelectionIsLastSelect ==
    /\ checkedRowKeys = lastSelect
    /\ \A k \in 1..Len(issued) :
          issued[k].api = "delete_user_record" => issued[k].keys = lastSelect

C6_Witness ==
    /\ op = "deleteSelectedData"
    /\ issued = <<DeleteCall(<<2>>)>>
    /\ tableData = <<1, 2>>

----------------------------------------------------------------------------
(* Properties of the composer *)

SubmitOps == {"keydownEnter", "clickSend"}

\* C7: handleEnter on a text that is empty or only whitespace emits nothing and
\* leaves the text and the mode as they are.
C7_BlankSubmitIsNoOp ==
    [][(op' \in SubmitOps /\ Trim(inputValue) = <<>>) =>
          /\ submitted' = <<>>
          /\ UNCHANGED <<inputValue, selectedMode>>]_vars

C7_Witness ==
    /\ op = "clickSend"
    /\ ~shiftKey
    /\ inputValue = <<" ", "\n">>
    /\ selectedMode = "DATABASE_QA"
    /\ submitted = <<>>

\* C8: a submit (a click on the send button, or an Enter keydown that is not
\* shift-modified) on a text whose trimmed form is not empty emits exactly
\* one submit event, carrying the text as it is and the selected mode, or
\* COMMON_QA when none is selected; it leaves the text empty and the mode as
\* it was; and only handleChipClick and clearMode change the mode.
C8_SubmitEmitsTextAndMode ==
    [][/\ (/\ \/ op' = "clickSend"
              \/ op' = "keydownEnter" /\ ~shiftKey'
           /\ Trim(inputValue) /= <<>>) =>
             /\ submitted' =
                  <<[text |-> inputValue,
                     mode |-> IF selectedMode = "null" THEN "COMMON_QA"
                                                       ELSE selectedMode]>>
             /\ inputValue' = <<>>
             /\ selectedMode' = selectedMode
       /\ op' \notin {"handleChipClick", "clearMode"} =>
             selectedMode' = selectedMode]_vars

\* C9: a shift-modified Enter keydown emits nothing and the line break is
\* added to the text.
C9_ShiftEnterInsertsNewline ==
    [][(op' = "keydownEnter" /\ shiftKey') =>
          /\ submitted' = <<>>
          /\ inputValue' = Append(inputValue, "\n")]_vars

----------------------------------------------------------------------------

\* C10: whenever a successful fetch result has just been applied, and the
\* collaborator answered that query with at most the page size it asked for
\* (arg), the table holds at most pageSize rows.
C10_RowsWithinPageSize ==
    (op = "bodyOk" /\ Len(tableData) <= arg) => Len(tableData) <= pageSize

----------------------------------------------------------------------------
(* The dialog driven as its template drives it: the table, the pager and   *)
(* the delete button act only while the dialog is shown, the pager asks    *)
(* only for a page within [1, max(pageCount, 1)] and has no size picker    *)
(* (display-order is pages and quick-jumper, so update:page-size is never  *)
(* emitted), the table reports only keys of rows it displays, the delete   *)
(* button is disabled while nothing is selected, and close runs as         *)
(* on-after-leave, once the dialog is hidden.                              *)

Max(a, b) == IF a >= b THEN a ELSE b

NextCaller ==
    \/ QuerySettles
    \/ BodySettles
    \/ DeleteSettles
    \/ ~localShow /\ close
    \/ \E k \in IdLists :
         localShow /\ Ids(k) \subseteq Ids(tableData) /\ handleCheck(k)
    \/ localShow /\ Len(checkedRowKeys) /= 0 /\ deleteSelectedData
    \/ \E p \in 1..MaxPage :
         localShow /\ p \in 1..Max(pageCount, 1) /\ handlePageChange(p)
    \/ \E v \in BOOLEAN : watchShow(v)
    \/ modalDismiss

SpecCaller == Init /\ [][NextCaller]_vars

\* C11: a rejected or throwing collaborator call never leaves the operation
\* that made it (fetchData, deleteSelectedData).
C11_NoFailureEscapes == ~escaped

\* C12: the pager passing handlePageChange only pages within
\* [1, max(pageCount, 1)], page lies in [1, max(pageCount, 1)] in every state.
C12_PageWithinPageCount == page \in 1..Max(pageCount, 1)

\* C13: the table reporting only keys of rows it displays, every selected key
\* is the chat_id of a row of tableData, in every state.
C13_SelectionIsVisible == Ids(checkedRowKeys) \subseteq Ids(tableData)

\* C19: loading is true exactly when at least one fetch is in flight.
C19_LoadingIffInFlight == loading <=> InFlight > 0

\* C20: after close and until the dialog is opened again, tableData, total,
\* pageCount and loading do not change and no query is issued.  Stated of the
\* step that follows close, while the dialog stays hidden.
C20_NothingChangesWhileClosed ==
    [][(op = "close" /\ ~localShow /\ ~localShow') =>
          /\ UNCHANGED <<tableData, total, pageCount, loading>>
          /\ ~QueryIssued']_vars

\* C14: close() sets the local visibility to false, emits update:show with
\* false and sets page to 1; it calls no collaborator, and leaves tableData,
\* total, pageCount, pageSize, loading and the selection as they were (nor does
\* it touch the calls in flight).
C14_CloseEffectAndFrame ==
    [][op' = "close" =>
          /\ localShow' = FALSE
          /\ emitted' = <<[event |-> "update:show", value |-> FALSE]>>
          /\ page' = 1
          /\ issued' = <<>>
          /\ UNCHANGED <<tableData, total, pageCount, pageSize, loading,
                         checkedRowKeys, fetches, parsing, deletes>>]_vars

\* close() has run on a dialog with rows, a selection, a page other than the
\* first behind it (pageCount 2) and a fetch in flight.
C14_Witness ==
    /\ op = "close"
    /\ tableData /= <<>>
    /\ checkedRowKeys /= <<>>
    /\ pageCount = 2
    /\ loading
    /\ InFlight > 0

\* C15: every change of props.show from false to true issues exactly one
\* query_user_qa_record, with the page and the page size as they are, and
\* leaves page as it is; a change from true to false, or a run of the watcher
\* that leaves the local visibility as it is, issues no query.
C15_OpenFetchesOnce ==
    [][(op' = "watchShow" /\ propsShow' /= propsShow) =>
          /\ (~propsShow /\ propsShow') =>
                /\ issued' = <<QueryCall(page, pageSize)>>
                /\ fetches' = Append(fetches, pageSize)
                /\ UNCHANGED <<page, pageSize>>
          /\ (propsShow /\ ~propsShow') =>
                /\ issued' = <<>>
                /\ UNCHANGED fetches
          /\ (localShow' = localShow) =>
                /\ issued' = <<>>
                /\ UNCHANGED fetches]_vars

\* The dialog has been opened on a page other than the first.
C15_Witness ==
    /\ op = "watchShow"
    /\ propsShow
    /\ page > 1
    /\ issued = <<QueryCall(page, pageSize)>>

\* C16: a fetch in flight is never cancelled nor guarded by a request
\* sequence.  Whatever else is in flight and in whatever order the fetches
\* were issued, each of them can go on next (its query settle, its body
\* settle), and when it ends its result replaces tableData, total and
\* pageCount while the others stay in flight: the values left once all have
\* settled are those of the one that settled last, which need not be the one
\* issued last.
C16_LastResolvedWins ==
    /\ \A i \in 1..Len(fetches) :
         /\ ENABLED (/\ QuerySettled(i, "queryOk")
                     /\ parsing' = Append(parsing, fetches[i])
                     /\ fetches' = RemoveAt(fetches, i))
         /\ ENABLED (/\ QuerySettled(i, "queryRejected")
                     /\ tableData' = <<>>
                     /\ total' = 0
                     /\ pageCount' = 0
                     /\ fetches' = RemoveAt(fetches, i)
                     /\ parsing' = parsing)
    /\ \A j \in 1..Len(parsing) :
         \A r \in IdLists : \A c \in 0..MaxTotal : \A n \in 0..MaxPageCount :
            ENABLED (/\ BodySettled(j, "bodyParsed",
                                    [envelope    |-> TRUE,
                                     records     |-> <<r>>,
                                     total_count |-> <<c>>,
                                     total_pages |-> <<n>>])
                     /\ tableData' = r
                     /\ total' = c
                     /\ pageCount' = n
                     /\ parsing' = RemoveAt(parsing, j)
                     /\ fetches' = fetches)

\* Two fetches overlapped and the one issued first settled last: the result
\* just applied answers a query of page size 8, the page size is 1 by now and
\* the fetch that the change of page size issued has settled already.
C16_Witness ==
    /\ op = "bodyOk"
    /\ arg = DefaultPageSize
    /\ pageSize = 1
    /\ InFlight = 0
    /\ Len(tableData) = 2

----------------------------------------------------------------------------
(* Properties of the composer, continued *)

\* C17: the mode is one tag or unset.  handleChipClick(chip) sets it to
\* exactly that chip whatever it was before, clearMode() sets it to unset,
\* and neither changes the text; writing the text changes the text only.
C17_ModeAndTextAreIndependent ==
    /\ selectedMode \in Chips \cup {"null"}
    /\ \A c \in Chips :
         ENABLED (/\ handleChipClick(c)
                  /\ selectedMode' = c
                  /\ inputValue' = inputValue)
    /\ ENABLED (/\ clearMode
                /\ selectedMode' = "null"
                /\ inputValue' = inputValue)
    /\ \A v \in Texts :
         ENABLED (/\ setText(v)
                  /\ inputValue' = v
                  /\ selectedMode' = selectedMode)

\* A chip has been clicked while a text was typed.
C17_Witness ==
    /\ op = "handleChipClick"
    /\ selectedMode = "REPORT_QA"
    /\ inputValue = <<"a", " ", "a">>

----------------------------------------------------------------------------
(* Properties of the dialog, continued *)

\* C18: when a query resolves ok with a body that has the data envelope,
\* tableData becomes its records (no rows when the field is absent), total
\* its total_count (0 when absent), pageCount its total_pages (0 when absent),
\* page and pageSize stay as they are and loading ends false.
C18_SuccessAssignsEnvelope ==
    \A j \in 1..Len(parsing) :
        \A b \in {x \in Bodies : x.envelope} :
            ENABLED (/\ BodySettled(j, "bodyParsed", b)
                     /\ tableData' = (IF b.records = <<>> THEN <<>>
                                      ELSE b.records[1])
                     /\ total' = (IF b.total_count = <<>> THEN 0
                                  ELSE b.total_count[1])
                     /\ pageCount' = (IF b.total_pages = <<>> THEN 0
                                      ELSE b.total_pages[1])
                     /\ page' = page
                     /\ pageSize' = pageSize
                     /\ loading' = FALSE)

\* A query made on the second page has resolved ok with two rows, total 1
\* and two pages.
C18_Witness ==
    /\ op = "bodyOk"
    /\ Len(tableData) = 2
    /\ total = 1
    /\ pageCount = 2
    /\ page = 2
    /\ ~loading

====
